---- MODULE Spec2Model ----
(***************************************************************************)
(* Model of the Shelley bridge (bridge/src): the session manager, the      *)
(* Claude and Codex adapters and the two-backend Express service, together *)
(* with the model-selector routing.                                        *)
(*                                                                         *)
(* JavaScript runs one callback at a time, so every action below is one    *)
(* synchronous stretch of code between two awaits.  Time is the value of   *)
(* Date.now(); it advances by quiet periods, in which nothing happens but  *)
(* the cleanup intervals firing every CLEANUP_INTERVAL_MS.                 *)
(***************************************************************************)
EXTENDS Naturals, Integers, Sequences, FiniteSets, TLC

\* ------------------------------------------------------------------ bounds
MaxInFlight == 2     \* chat requests that may overlap
MaxQuiet == 2        \* quiet periods the clock may advance by
MaxChats == 2        \* chat requests the bridge accepts in one run
MaxPieces == 3       \* pieces a model selector is assembled from
MaxTicks == 7        \* cleanup periods the clock of a lone session manager spans
MaxMessages == 3     \* messages in the history handed to Service.Do

\* --------------------------------------------------------- program constants
IDLE_TIMEOUT_MS == 30 * 60 * 1000
CLEANUP_INTERVAL_MS == 5 * 60 * 1000

\* ------------------------------------------------------------------ values
\* JavaScript's undefined, for string-valued variables and fields.
Undefined == "<undefined>"
Truthy(v) == v # Undefined /\ v # ""

Backends == {"claude-code", "codex"}
ConvIds == {"c1", "c2"}
Handles == {"s1", "s2"}

\* Strings that are inspected character by character are sequences of
\* one-character strings; an absent selector is NoModel.
NoModel == <<"<undefined>">>
codex == <<"c", "o", "d", "e", "x">>
codexDash == <<"c", "o", "d", "e", "x", "-">>
codexMini == <<"c", "o", "d", "e", "x", "-", "m", "i", "n", "i">>
sonnet == <<"s", "o", "n", "n", "e", "t">>

startsWith(s, prefix) ==
    /\ Len(s) >= Len(prefix)
    /\ SubSeq(s, 1, Len(prefix)) = prefix

\* Mutant: only the exact selector is recognised.
isCodexModel_Exact(model) == model = codex

isCodexModel(model) ==
    \/ model = codex
    \/ (model # NoModel /\ model # <<>> /\ startsWith(model, codexDash))

\* Selector values the router is applied to: every concatenation of at most
\* MaxPieces pieces, and the absent selector.
SelectorPieces == {codex, <<"-">>, <<"m", "i", "n", "i">>, <<"c">>, sonnet}
RECURSIVE Selectors(_)
Selectors(n) ==
    IF n = 0 THEN {<<>>}
    ELSE LET shorter == Selectors(n - 1)
         IN  shorter \cup {s \o p : s \in shorter, p \in SelectorPieces}
SelectorInputs == Selectors(MaxPieces) \cup {NoModel}

\* ------------------------------------------------------------ SessionManager
\* A session table is a function from the stored conversation ids to
\* SessionInfo records.
NoSessions == [id \in {} |-> [sessionId |-> "", lastActivity |-> 0]]

Without(sessions, ids) == [id \in (DOMAIN sessions) \ ids |-> sessions[id]]

\* Mutant: the lookup does not count as activity.
SessionManager_get_NoTouch(sessions, conversationId, now) ==
    IF conversationId \in DOMAIN sessions
    THEN [sessions |-> sessions, value |-> sessions[conversationId].sessionId]
    ELSE [sessions |-> sessions, value |-> Undefined]

SessionManager_get(sessions, conversationId, now) ==
    IF conversationId \in DOMAIN sessions
    THEN [sessions |-> [sessions EXCEPT ![conversationId].lastActivity = now],
          value |-> sessions[conversationId].sessionId]
    ELSE [sessions |-> sessions, value |-> Undefined]

\* Mutant: an entry that exists is left as it is (the first writer wins).
SessionManager_set_KeepExisting(sessions, conversationId, sessionId, now) ==
    IF conversationId \in DOMAIN sessions THEN sessions
    ELSE [id \in (DOMAIN sessions) \cup {conversationId} |->
             IF id = conversationId
             THEN [sessionId |-> sessionId, lastActivity |-> now]
             ELSE sessions[id]]

\* Mutant: the table is replaced by the one entry that is written.
SessionManager_set_Alone(sessions, conversationId, sessionId, now) ==
    [id \in {conversationId} |-> [sessionId |-> sessionId, lastActivity |-> now]]

SessionManager_set(sessions, conversationId, sessionId, now) ==
    [id \in (DOMAIN sessions) \cup {conversationId} |->
        IF id = conversationId
        THEN [sessionId |-> sessionId, lastActivity |-> now]
        ELSE sessions[id]]

\* Mutant: reports the deletion without removing the entry.
SessionManager_delete_Keep(sessions, conversationId) ==
    [sessions |-> sessions, value |-> conversationId \in DOMAIN sessions]

SessionManager_delete(sessions, conversationId) ==
    [sessions |-> Without(sessions, {conversationId}),
     value |-> conversationId \in DOMAIN sessions]

\* Mutant: reports whether the table is non-empty rather than its size.
SessionManager_activeCount_NonEmpty(sessions) ==
    IF DOMAIN sessions = {} THEN 0 ELSE 1

SessionManager_activeCount(sessions) == Cardinality(DOMAIN sessions)

\* Mutant: an entry idle for exactly the timeout is removed too.
SessionManager_cleanup_AtTimeout(sessions, now) ==
    LET idle == {id \in DOMAIN sessions :
                    now - sessions[id].lastActivity >= IDLE_TIMEOUT_MS}
    IN  [sessions |-> Without(sessions, idle),
         value |-> Cardinality(idle),
         removed |-> idle]

SessionManager_cleanup(sessions, now) ==
    LET idle == {id \in DOMAIN sessions :
                    now - sessions[id].lastActivity > IDLE_TIMEOUT_MS}
    IN  [sessions |-> Without(sessions, idle),
         value |-> Cardinality(idle),
         removed |-> idle]

\* ------------------------------------------------------------------- state
VARIABLES
    sessions,     \* [backend -> session table]: claudeSessionManager, codexSessionManager
    now,          \* Date.now()
    turns,        \* [slot -> chat request in flight, suspended at its await]
    response,     \* what the step just taken sent or logged (NoResponse if nothing)
    lastSet,      \* [backend -> [conversation id -> handle last written by a chat call]]
    fresh,        \* [conversation id -> deleted and no chat request accepted since]
    probe,        \* the router's last selector and choice; or the Service.Do call under way,
                  \* the events of the Claude stream, the cleanup timers
    accepted      \* number of chat requests accepted so far

vars == <<sessions, now, turns, response, lastSet, fresh, probe, accepted>>

Slots == 1..MaxInFlight
Idle == [pc |-> "idle"]
NoResponse == [kind |-> "none"]
NoProbe == [model |-> NoModel, backend |-> "none"]

\* Bookkeeping for the properties.  lastSet[b][c] is the handle that the
\* chat call which last completed without error and with a handle captured
\* for c on b; it is "" if there was none since c was last deleted or
\* reaped on b.  fresh[c] holds from the answer to DELETE /sessions/c until
\* the next chat request for c is accepted.

ALLOWED_TOOLS ==
    <<"Bash", "Read", "Write", "Edit", "Glob", "Grep", "WebFetch", "WebSearch">>

processCwd == "/cwd"

\* ---------------------------------------------------------------- requests
ConversationIdInputs == {Undefined} \cup ConvIds
MessageInputs == {"", "Hello"}
WorkingDirInputs == {Undefined}
ModelInputs == {sonnet, codex}

ChatRequests ==
    [conversation_id : ConversationIdInputs, message : MessageInputs,
     working_dir : WorkingDirInputs, model : ModelInputs]

\* Faults a backend call can raise: Error objects, with a message or with the
\* empty one, and thrown values that are not Error objects.
Faults ==
    {[instanceofError |-> TRUE, message |-> "rate limited"],
     [instanceofError |-> TRUE, message |-> ""],
     [instanceofError |-> FALSE, message |-> Undefined]}

\* Messages of the Claude event stream; a field a message does not carry is
\* not in its domain.
InitMessage(h) == [type |-> "system", subtype |-> "init", session_id |-> h]
ResultMessage ==
    [type |-> "result", subtype |-> "success", result |-> "Hi there!",
     input_tokens |-> 100, output_tokens |-> 50]
ClaudeMessages == {InitMessage(h) : h \in Handles} \cup {ResultMessage}

\* What thread.run resolves to.
CodexTurns ==
    {[finalResponse |-> "Hi there!", usage |-> [input_tokens |-> 100, output_tokens |-> 50]],
     [finalResponse |-> "Hi there!"]}

Has(r, f) == f \in DOMAIN r

InFlight(b, c) ==
    {t \in Slots : /\ turns[t].pc = "running"
                   /\ turns[t].backend = b
                   /\ turns[t].req.conversation_id = c}

FreeSlot(t) ==
    /\ turns[t].pc = "idle"
    /\ \A u \in Slots : u < t => turns[u].pc = "running"

Init ==
    /\ sessions = [b \in Backends |-> NoSessions]
    /\ now = 0
    /\ turns = [t \in Slots |-> Idle]
    /\ response = NoResponse
    /\ lastSet = [b \in Backends |-> [c \in ConvIds |-> ""]]
    /\ fresh = [c \in ConvIds |-> FALSE]
    /\ probe = NoProbe
    /\ accepted = 0

\* ------------------------------------------------------------- ClaudeAdapter
\* chat, up to the first await of the message stream: the lookup and the
\* options handed to query().
\* Mutant: the stored handle is not handed to query().
ClaudeAdapter_queryOptions_NoResume(req, existingSessionId) ==
    [allowedTools |-> ALLOWED_TOOLS, permissionMode |-> "bypassPermissions",
     cwd |-> req.working_dir]

ClaudeAdapter_queryOptions(req, existingSessionId) ==
    LET base == [allowedTools |-> ALLOWED_TOOLS, permissionMode |-> "bypassPermissions"]
        withCwd == IF Truthy(req.working_dir)
                   THEN [f \in DOMAIN base \cup {"cwd"} |->
                            IF f = "cwd" THEN req.working_dir ELSE base[f]]
                   ELSE base
    IN  IF Truthy(existingSessionId)
        THEN [f \in DOMAIN withCwd \cup {"resume"} |->
                 IF f = "resume" THEN existingSessionId ELSE withCwd[f]]
        ELSE withCwd

ClaudeAdapter_begin(table, req, time) ==
    LET got == SessionManager_get(table, req.conversation_id, time)
    IN  [sessions |-> got.sessions,
         turn |-> [pc |-> "running", backend |-> "claude-code", req |-> req,
                   existingSessionId |-> got.value,
                   resultText |-> "", sessionId |-> "", isError |-> FALSE,
                   inputTokens |-> 0, outputTokens |-> 0, compacted |-> FALSE,
                   queryOptions |-> ClaudeAdapter_queryOptions(req, got.value),
                   prompt |-> req.message]]

\* Mutant: the first result text is kept, later ones are ignored.
ClaudeAdapter_onMessage_FirstResult(turn, message) ==
    LET isSystem == Has(message, "type") /\ message.type = "system"
        subtype == IF Has(message, "subtype") THEN message.subtype ELSE Undefined
    IN  [turn EXCEPT
            !.sessionId =
                IF isSystem /\ subtype = "init" /\ Has(message, "session_id")
                   /\ Truthy(message.session_id)
                THEN message.session_id ELSE @,
            !.compacted =
                IF isSystem /\ subtype = "compact_boundary" THEN TRUE ELSE @,
            !.resultText = IF Has(message, "result") /\ @ = "" THEN message.result ELSE @,
            !.inputTokens = IF Has(message, "input_tokens") THEN message.input_tokens ELSE @,
            !.outputTokens = IF Has(message, "output_tokens") THEN message.output_tokens ELSE @]

\* One iteration of the for-await loop.
ClaudeAdapter_onMessage(turn, message) ==
    LET isSystem == Has(message, "type") /\ message.type = "system"
        subtype == IF Has(message, "subtype") THEN message.subtype ELSE Undefined
    IN  [turn EXCEPT
            !.sessionId =
                IF isSystem /\ subtype = "init" /\ Has(message, "session_id")
                   /\ Truthy(message.session_id)
                THEN message.session_id ELSE @,
            !.compacted =
                IF isSystem /\ subtype = "compact_boundary" THEN TRUE ELSE @,
            !.resultText = IF Has(message, "result") THEN message.result ELSE @,
            !.inputTokens = IF Has(message, "input_tokens") THEN message.input_tokens ELSE @,
            !.outputTokens = IF Has(message, "output_tokens") THEN message.output_tokens ELSE @]

\* Mutant: the looked-up handle is preferred to the one captured in this turn.
ClaudeAdapter_result_ExistingFirst(turn) ==
    [result |-> turn.resultText,
     session_id |-> IF Truthy(turn.existingSessionId) THEN turn.existingSessionId
                    ELSE IF Truthy(turn.sessionId) THEN turn.sessionId
                    ELSE "",
     usage |-> [input_tokens |-> turn.inputTokens, output_tokens |-> turn.outputTokens],
     is_error |-> turn.isError]

\* The object chat returns.
ClaudeAdapter_result(turn) ==
    LET r == [result |-> turn.resultText,
              session_id |-> IF Truthy(turn.sessionId) THEN turn.sessionId
                             ELSE IF Truthy(turn.existingSessionId) THEN turn.existingSessionId
                             ELSE "",
              usage |-> [input_tokens |-> turn.inputTokens,
                         output_tokens |-> turn.outputTokens],
              is_error |-> turn.isError]
    IN  IF turn.compacted
        THEN [f \in DOMAIN r \cup {"compacted"} |-> IF f = "compacted" THEN TRUE ELSE r[f]]
        ELSE r

\* Mutant: the captured handle is returned but not stored.
ClaudeAdapter_end_NoStore(table, turn, time) ==
    [sessions |-> table, raised |-> FALSE, value |-> ClaudeAdapter_result(turn)]

\* Mutant: the mapping is stored whether or not a handle was captured.
ClaudeAdapter_end_StoreAlways(table, turn, time) ==
    [sessions |-> SessionManager_set(table, turn.req.conversation_id, turn.sessionId, time),
     raised |-> FALSE,
     value |-> ClaudeAdapter_result(turn)]

\* Mutant: a turn whose entry vanished while it ran does not store its handle.
ClaudeAdapter_end_UnlessReaped(table, turn, time) ==
    [sessions |-> IF /\ Truthy(turn.sessionId)
                     /\ (Truthy(turn.existingSessionId)
                            => turn.req.conversation_id \in DOMAIN table)
                  THEN SessionManager_set(table, turn.req.conversation_id, turn.sessionId, time)
                  ELSE table,
     raised |-> FALSE,
     value |-> ClaudeAdapter_result(turn)]

\* The stream ended: store the mapping, return.
ClaudeAdapter_end(table, turn, time) ==
    [sessions |-> IF Truthy(turn.sessionId)
                  THEN SessionManager_set(table, turn.req.conversation_id, turn.sessionId, time)
                  ELSE table,
     raised |-> FALSE,
     value |-> ClaudeAdapter_result(turn)]

\* Mutant: no catch block, the fault reaches the caller of chat.
ClaudeAdapter_catch_Rethrow(table, turn, err) ==
    [sessions |-> table, raised |-> TRUE, value |-> err]

\* Mutant: the catch block stores the handle captured before the fault.
ClaudeAdapter_catch_StoreCaptured(table, turn, err) ==
    [sessions |-> IF Truthy(turn.sessionId)
                  THEN SessionManager_set(table, turn.req.conversation_id, turn.sessionId, 0)
                  ELSE table,
     raised |-> FALSE,
     value |-> ClaudeAdapter_result(
                  [turn EXCEPT !.isError = TRUE,
                               !.resultText = IF err.instanceofError THEN err.message
                                              ELSE "Unknown error from Claude Code"])]

\* The stream (or query itself) threw err: the catch block, return.
ClaudeAdapter_catch(table, turn, err) ==
    [sessions |-> table,
     raised |-> FALSE,
     value |-> ClaudeAdapter_result(
                  [turn EXCEPT !.isError = TRUE,
                               !.resultText = IF err.instanceofError THEN err.message
                                              ELSE "Unknown error from Claude Code"])]

\* -------------------------------------------------------------- CodexAdapter
\* Mutant: a thread is started whether or not one is stored.
CodexAdapter_begin_AlwaysStart(table, req, time) ==
    LET got == SessionManager_get(table, req.conversation_id, time)
    IN  [sessions |-> got.sessions,
         turn |-> [pc |-> "running", backend |-> "codex", req |-> req,
                   existingThreadId |-> got.value,
                   thread |-> [api |-> "startThread",
                               options |-> [workingDirectory |-> req.working_dir]],
                   input |-> req.message]]

\* Mutant: the request's selector is handed to startThread as its model.
CodexAdapter_begin_ForwardModel(table, req, time) ==
    LET got == SessionManager_get(table, req.conversation_id, time)
    IN  [sessions |-> got.sessions,
         turn |-> [pc |-> "running", backend |-> "codex", req |-> req,
                   existingThreadId |-> got.value,
                   thread |-> IF Truthy(got.value)
                              THEN [api |-> "resumeThread", id |-> got.value]
                              ELSE [api |-> "startThread",
                                    options |-> [workingDirectory |-> req.working_dir,
                                                 model |-> req.model]],
                   input |-> req.message]]

\* chat, up to the await of thread.run: the lookup and the thread that is
\* resumed or started.
CodexAdapter_begin(table, req, time) ==
    LET got == SessionManager_get(table, req.conversation_id, time)
    IN  [sessions |-> got.sessions,
         turn |-> [pc |-> "running", backend |-> "codex", req |-> req,
                   existingThreadId |-> got.value,
                   thread |-> IF Truthy(got.value)
                              THEN [api |-> "resumeThread", id |-> got.value]
                              ELSE [api |-> "startThread",
                                    options |-> [workingDirectory |->
                                        IF Truthy(req.working_dir) THEN req.working_dir
                                        ELSE processCwd]],
                   input |-> req.message]]

\* Mutant: the looked-up thread is not fallen back on.
CodexAdapter_result_NoFallback(existingThreadId, threadId, resultText, inputTokens, outputTokens, isError) ==
    [result |-> resultText,
     session_id |-> IF Truthy(threadId) THEN threadId ELSE "",
     usage |-> [input_tokens |-> inputTokens, output_tokens |-> outputTokens],
     is_error |-> isError]

CodexAdapter_result(existingThreadId, threadId, resultText, inputTokens, outputTokens, isError) ==
    [result |-> resultText,
     session_id |-> IF Truthy(threadId) THEN threadId
                    ELSE IF Truthy(existingThreadId) THEN existingThreadId
                    ELSE "",
     usage |-> [input_tokens |-> inputTokens, output_tokens |-> outputTokens],
     is_error |-> isError]

\* thread.run resolved to turn, and thread.id is id (Undefined: null).
CodexAdapter_end(table, t, id, turn, time) ==
    LET threadId == IF Truthy(id) THEN id ELSE ""
        resultText == IF Has(turn, "finalResponse") /\ Truthy(turn.finalResponse)
                      THEN turn.finalResponse ELSE ""
        hasUsage == Has(turn, "usage")
    IN  [sessions |-> IF Truthy(threadId)
                      THEN SessionManager_set(table, t.req.conversation_id, threadId, time)
                      ELSE table,
         raised |-> FALSE,
         threadId |-> threadId,
         value |-> CodexAdapter_result(t.existingThreadId, threadId, resultText,
                      IF hasUsage THEN turn.usage.input_tokens ELSE 0,
                      IF hasUsage THEN turn.usage.output_tokens ELSE 0,
                      FALSE)]

\* Mutant: the fault's own message is dropped.
CodexAdapter_catch_Generic(table, t, err) ==
    [sessions |-> table,
     raised |-> FALSE,
     threadId |-> "",
     value |-> CodexAdapter_result(t.existingThreadId, "", "Unknown error from Codex",
                                   0, 0, TRUE)]

\* Mutant: a failed turn drops the stored thread.
CodexAdapter_catch_Forget(table, t, err) ==
    [sessions |-> Without(table, {t.req.conversation_id}),
     raised |-> FALSE,
     threadId |-> "",
     value |-> CodexAdapter_result(t.existingThreadId, "",
                  IF err.instanceofError THEN err.message ELSE "Unknown error from Codex",
                  0, 0, TRUE)]

\* resumeThread, startThread or thread.run threw err: the catch block, return.
CodexAdapter_catch(table, t, err) ==
    [sessions |-> table,
     raised |-> FALSE,
     threadId |-> "",
     value |-> CodexAdapter_result(t.existingThreadId, "",
                  IF err.instanceofError THEN err.message ELSE "Unknown error from Codex",
                  0, 0, TRUE)]

\* deleteSession of the two adapters: each forwards to its session manager.
ClaudeAdapter_deleteSession(table, conversationId) ==
    SessionManager_delete(table, conversationId)

\* Mutant: the Codex adapter leaves its table alone and reports false.
CodexAdapter_deleteSession_Skip(table, conversationId) ==
    [sessions |-> table, value |-> FALSE]

CodexAdapter_deleteSession(table, conversationId) ==
    SessionManager_delete(table, conversationId)

\* ------------------------------------------------------------ bridge service
\* The body of the 400 and of the 500 answer.
ErrorBody(text) ==
    [result |-> text, session_id |-> "",
     usage |-> [input_tokens |-> 0, output_tokens |-> 0],
     is_error |-> TRUE]

\* Mutant: only conversation_id is validated.
Invalid_OnlyConversationId(body) == ~Truthy(body.conversation_id)

Invalid(body) == ~Truthy(body.conversation_id) \/ ~Truthy(body.message)

BackendOf(model) == IF isCodexModel(model) THEN "codex" ELSE "claude-code"

\* Mutant: the 500 answer carries the fault's own message.
ChatAnswer_PassFault(outcome) ==
    IF outcome.raised
    THEN [status |-> 500, body |-> ErrorBody(outcome.value.message)]
    ELSE [status |-> 200, body |-> outcome.value]

\* What app.post("/chat") sends once adapter.chat has settled.
ChatAnswer(outcome) ==
    IF outcome.raised
    THEN [status |-> 500, body |-> ErrorBody("Internal bridge error")]
    ELSE [status |-> 200, body |-> outcome.value]

Existing(turn) ==
    IF turn.backend = "codex" THEN turn.existingThreadId ELSE turn.existingSessionId

\* The resume handle the backend was invoked with (Undefined: a new session).
ResumeHandle(turn) ==
    IF turn.backend = "codex"
    THEN (IF turn.thread.api = "resumeThread" THEN turn.thread.id ELSE Undefined)
    ELSE (IF Has(turn.queryOptions, "resume") THEN turn.queryOptions.resume ELSE Undefined)

NoFault == [instanceofError |-> FALSE, message |-> "<no fault>"]

\* GET /health
GetHealth ==
    /\ response' = [kind |-> "health", status |-> 200,
                    body |-> [status |-> "ok",
                              active_sessions |->
                                  SessionManager_activeCount(sessions["claude-code"])
                                  + SessionManager_activeCount(sessions["codex"])]]
    /\ UNCHANGED <<sessions, now, turns, lastSet, fresh, probe, accepted>>

\* POST /chat with conversation_id or message missing or empty.
PostChatReject(body) ==
    /\ Invalid(body)
    /\ response' = [kind |-> "chat", status |-> 400, body |-> ErrorBody(""),
                    ctx |-> [conversation_id |-> body.conversation_id,
                             message |-> body.message]]
    /\ UNCHANGED <<sessions, now, turns, lastSet, fresh, probe, accepted>>

\* POST /chat with a valid body: default the working directory, choose the
\* adapter, and run its chat up to the await of the backend.
PostChatStart(t, body) ==
    /\ FreeSlot(t)
    /\ accepted < MaxChats
    /\ ~Invalid(body)
    /\ LET req == IF Truthy(body.working_dir) THEN body
                  ELSE [body EXCEPT !.working_dir = processCwd]
           b == BackendOf(req.model)
           c == req.conversation_id
           begun == IF b = "codex"
                    THEN CodexAdapter_begin(sessions[b], req, now)
                    ELSE ClaudeAdapter_begin(sessions[b], req, now)
       IN  /\ sessions' = [sessions EXCEPT ![b] = begun.sessions]
           /\ turns' = [turns EXCEPT ![t] = begun.turn]
           /\ fresh' = [fresh EXCEPT ![c] = FALSE]
    /\ response' = NoResponse
    /\ accepted' = accepted + 1
    /\ UNCHANGED <<now, lastSet, probe>>

\* The chat call in slot t settled with outcome: answer the request.
Settle(t, outcome, captured, fault) ==
    LET turn == turns[t]
        b == turn.backend
        c == turn.req.conversation_id
        answer == ChatAnswer(outcome)
        ok == ~outcome.raised /\ ~outcome.value.is_error
    IN  /\ sessions' = [sessions EXCEPT ![b] = outcome.sessions]
        /\ turns' = [turns EXCEPT ![t] = Idle]
        /\ response' = [kind |-> "chat", status |-> answer.status, body |-> answer.body,
                        ctx |-> [conversation_id |-> c, message |-> turn.req.message,
                                 backend |-> b, existing |-> Existing(turn),
                                 resume |-> ResumeHandle(turn),
                                 captured |-> captured, fault |-> fault,
                                 raised |-> outcome.raised,
                                 stored |-> IF c \in DOMAIN sessions[b]
                                            THEN sessions[b][c].sessionId ELSE Undefined]]
        /\ lastSet' = [lastSet EXCEPT ![b][c] = IF ok /\ captured # "" THEN captured ELSE @]
        /\ UNCHANGED <<now, fresh, probe, accepted>>

\* The Claude stream yields one more message.
ClaudeMessage(t, message) ==
    /\ turns[t].pc = "running"
    /\ turns[t].backend = "claude-code"
    /\ turns' = [turns EXCEPT ![t] = ClaudeAdapter_onMessage(@, message)]
    /\ response' = NoResponse
    /\ UNCHANGED <<sessions, now, lastSet, fresh, probe, accepted>>

\* The Claude stream ends.
ClaudeDone(t) ==
    /\ turns[t].pc = "running"
    /\ turns[t].backend = "claude-code"
    /\ Settle(t, ClaudeAdapter_end(sessions["claude-code"], turns[t], now),
              turns[t].sessionId, NoFault)

\* query() or the Claude stream throws.
ClaudeFault(t, err) ==
    /\ turns[t].pc = "running"
    /\ turns[t].backend = "claude-code"
    /\ Settle(t, ClaudeAdapter_catch(sessions["claude-code"], turns[t], err),
              turns[t].sessionId, err)

\* Thread ids thread.id can hold once run has resolved: the id of the
\* thread the backend ran, or null for a thread that was never given one.
ThreadIds(turn) ==
    IF turn.thread.api = "resumeThread" THEN Handles ELSE Handles \cup {Undefined}

\* thread.run resolves.
CodexDone(t, id, turn) ==
    /\ turns[t].pc = "running"
    /\ turns[t].backend = "codex"
    /\ id \in ThreadIds(turns[t])
    /\ LET outcome == CodexAdapter_end(sessions["codex"], turns[t], id, turn, now)
       IN  Settle(t, outcome, outcome.threadId, NoFault)

\* resumeThread, startThread or thread.run throws.
CodexFault(t, err) ==
    /\ turns[t].pc = "running"
    /\ turns[t].backend = "codex"
    /\ LET outcome == CodexAdapter_catch(sessions["codex"], turns[t], err)
       IN  Settle(t, outcome, outcome.threadId, err)

\* DELETE /sessions/:conversationId
DeleteSession(conversationId) ==
    LET deletedClaude == ClaudeAdapter_deleteSession(sessions["claude-code"], conversationId)
        deletedCodex == CodexAdapter_deleteSession(sessions["codex"], conversationId)
    IN  /\ sessions' = [sessions EXCEPT !["claude-code"] = deletedClaude.sessions,
                                        !["codex"] = deletedCodex.sessions]
        /\ response' = [kind |-> "delete", status |-> 200,
                        body |-> [deleted |-> deletedClaude.value \/ deletedCodex.value],
                        ctx |-> [conversation_id |-> conversationId,
                                 deletedClaude |-> deletedClaude.value,
                                 deletedCodex |-> deletedCodex.value]]
        /\ lastSet' = [b \in Backends |-> [lastSet[b] EXCEPT ![conversationId] = ""]]
        /\ fresh' = [fresh EXCEPT ![conversationId] = TRUE]
        /\ UNCHANGED <<now, turns, probe, accepted>>

\* The cleanup intervals of both session managers fire k times in a row,
\* CLEANUP_INTERVAL_MS apart, starting from the tables at time: the tables
\* left, the ids removed and the lines startCleanupInterval logged.
RECURSIVE Intervals(_, _, _)
Intervals(tables, time, k) ==
    IF k = 0
    THEN [sessions |-> tables, removed |-> [b \in Backends |-> {}], log |-> <<>>]
    ELSE LET at == time + CLEANUP_INTERVAL_MS
             swept == [b \in Backends |-> SessionManager_cleanup(tables[b], at)]
             rest == Intervals([b \in Backends |-> swept[b].sessions], at, k - 1)
             lines == (IF swept["claude-code"].value > 0
                       THEN <<[backend |-> "claude-code", removed |-> swept["claude-code"].value, at |-> at]>>
                       ELSE <<>>)
                      \o (IF swept["codex"].value > 0
                          THEN <<[backend |-> "codex", removed |-> swept["codex"].value, at |-> at]>>
                          ELSE <<>>)
         IN  [sessions |-> rest.sessions,
              removed |-> [b \in Backends |-> swept[b].removed \cup rest.removed[b]],
              log |-> lines \o rest.log]

\* The intervals that fire while IDLE_TIMEOUT_MS passes.
QuietIntervals == IDLE_TIMEOUT_MS \div CLEANUP_INTERVAL_MS

\* A quiet period: no request arrives and no backend call settles while
\* k cleanup intervals pass.
Quiet(k) ==
    /\ now + k * CLEANUP_INTERVAL_MS <= MaxQuiet * IDLE_TIMEOUT_MS
    /\ LET passed == Intervals(sessions, now, k)
       IN  /\ sessions' = passed.sessions
           /\ response' = [kind |-> "cleanup", log |-> passed.log]
           /\ lastSet' = [b \in Backends |->
                             [c \in ConvIds |->
                                 IF c \in passed.removed[b] THEN "" ELSE lastSet[b][c]]]
    /\ now' = now + k * CLEANUP_INTERVAL_MS
    /\ UNCHANGED <<turns, fresh, probe, accepted>>

Next ==
    \/ \E body \in ChatRequests : PostChatReject(body)
    \/ \E t \in Slots, body \in ChatRequests : PostChatStart(t, body)
    \/ \E t \in Slots, message \in ClaudeMessages : ClaudeMessage(t, message)
    \/ \E t \in Slots : ClaudeDone(t)
    \/ \E t \in Slots, err \in Faults : ClaudeFault(t, err)
    \/ \E t \in Slots, id \in Handles \cup {Undefined}, turn \in CodexTurns : CodexDone(t, id, turn)
    \/ \E t \in Slots, err \in Faults : CodexFault(t, err)
    \/ \E conversationId \in ConvIds : DeleteSession(conversationId)
    \/ Quiet(QuietIntervals)
    \/ GetHealth

Spec == Init /\ [][Next]_vars

\* The bridge with an adapter whose chat can reject: the promise awaited by
\* app.post("/chat") rejects with err, the adapter having written nothing
\* more to its table.
ChatRaise(t, err) ==
    /\ turns[t].pc = "running"
    /\ Settle(t, [sessions |-> sessions[turns[t].backend], raised |-> TRUE, value |-> err],
              IF turns[t].backend = "codex" THEN "" ELSE turns[t].sessionId, err)

NextRaise ==
    \/ Next
    \/ \E t \in Slots, err \in Faults : ChatRaise(t, err)

SpecRaise == Init /\ [][NextRaise]_vars

\* The router on its own: isCodexModel applied to one selector after another.
Route(model) ==
    /\ probe' = [model |-> model, backend |-> BackendOf(model)]
    /\ UNCHANGED <<sessions, now, turns, response, lastSet, fresh, accepted>>

NextRoute == \E model \in SelectorInputs : Route(model)

SpecRoute == Init /\ [][NextRoute]_vars

\* One session manager on its own: get, set, delete and cleanup called in
\* any order while the clock advances.  The manager is the Claude one;
\* cleanup reports the table it found, the time it read and what it returned.
ClockTimes ==
    {k * CLEANUP_INTERVAL_MS + e : k \in 0..MaxTicks, e \in {0, 1}}

ClockAdvance(time) ==
    /\ time > now
    /\ now' = time
    /\ response' = NoResponse
    /\ UNCHANGED <<sessions, turns, lastSet, fresh, probe, accepted>>

ManagerGet(conversationId) ==
    LET got == SessionManager_get(sessions["claude-code"], conversationId, now)
    IN  /\ sessions' = [sessions EXCEPT !["claude-code"] = got.sessions]
        /\ response' = [kind |-> "get", value |-> got.value]
        /\ UNCHANGED <<now, turns, lastSet, fresh, probe, accepted>>

ManagerSet(conversationId, sessionId) ==
    /\ sessions' = [sessions EXCEPT !["claude-code"] =
                        SessionManager_set(@, conversationId, sessionId, now)]
    /\ response' = NoResponse
    /\ UNCHANGED <<now, turns, lastSet, fresh, probe, accepted>>

ManagerDelete(conversationId) ==
    LET deleted == SessionManager_delete(sessions["claude-code"], conversationId)
    IN  /\ sessions' = [sessions EXCEPT !["claude-code"] = deleted.sessions]
        /\ response' = [kind |-> "deleted", value |-> deleted.value]
        /\ UNCHANGED <<now, turns, lastSet, fresh, probe, accepted>>

ManagerCleanup ==
    LET swept == SessionManager_cleanup(sessions["claude-code"], now)
    IN  /\ sessions' = [sessions EXCEPT !["claude-code"] = swept.sessions]
        /\ response' = [kind |-> "sweep", before |-> sessions["claude-code"],
                        at |-> now, value |-> swept.value]
        /\ UNCHANGED <<now, turns, lastSet, fresh, probe, accepted>>

NextManager ==
    \/ \E time \in ClockTimes : ClockAdvance(time)
    \/ \E conversationId \in ConvIds : ManagerGet(conversationId)
    \/ \E conversationId \in ConvIds, sessionId \in Handles :
          ManagerSet(conversationId, sessionId)
    \/ \E conversationId \in ConvIds : ManagerDelete(conversationId)
    \/ ManagerCleanup

SpecManager == Init /\ [][NextManager]_vars

\* One Claude turn after another, each with the whole event stream it
\* consumed on record.  The events are those of the SDK's message union:
\* every one carries the session's id, an init event announces the handle, a
\* compact_boundary event marks a compaction, a result event carries the
\* result text unless the run failed, and token counts where they are
\* reported at the top level of the event.
MaxEvents == 4       \* events of one Claude stream

InitEvent(h) == [type |-> "system", subtype |-> "init", session_id |-> h]
CompactEvent == [type |-> "system", subtype |-> "compact_boundary", session_id |-> "s2"]
AssistantEvent == [type |-> "assistant", session_id |-> "s1"]
ResultEvent(text, inputTokens, outputTokens) ==
    [type |-> "result", subtype |-> "success", result |-> text, session_id |-> "s1",
     input_tokens |-> inputTokens, output_tokens |-> outputTokens]
PlainResultEvent ==
    [type |-> "result", subtype |-> "success", result |-> "Hi there!", session_id |-> "s2"]
FailedResultEvent ==
    [type |-> "result", subtype |-> "error_during_execution", session_id |-> "s1",
     input_tokens |-> 7, output_tokens |-> 0]

StreamEvents ==
    {InitEvent(h) : h \in Handles}
    \cup {CompactEvent, AssistantEvent, PlainResultEvent, FailedResultEvent,
          ResultEvent("partial", 10, 5), ResultEvent("Hi there!", 100, 50)}

NoEvents == [events |-> <<>>]

\* POST /chat routed to the Claude adapter: chat up to its first await.
StreamOpen(conversationId) ==
    /\ turns[1].pc = "idle"
    /\ accepted < MaxChats
    /\ LET req == [conversation_id |-> conversationId, message |-> "Hello",
                   working_dir |-> processCwd, model |-> sonnet]
           begun == ClaudeAdapter_begin(sessions["claude-code"], req, now)
       IN  /\ sessions' = [sessions EXCEPT !["claude-code"] = begun.sessions]
           /\ turns' = [turns EXCEPT ![1] = begun.turn]
    /\ response' = NoResponse
    /\ probe' = NoEvents
    /\ accepted' = accepted + 1
    /\ UNCHANGED <<now, lastSet, fresh>>

\* The stream yields one more event.
StreamEvent(message) ==
    /\ turns[1].pc = "running"
    /\ Len(probe.events) < MaxEvents
    /\ turns' = [turns EXCEPT ![1] = ClaudeAdapter_onMessage(@, message)]
    /\ probe' = [events |-> Append(probe.events, message)]
    /\ response' = NoResponse
    /\ UNCHANGED <<sessions, now, lastSet, fresh, accepted>>

NextStream ==
    \/ \E conversationId \in ConvIds : StreamOpen(conversationId)
    \/ \E message \in StreamEvents : StreamEvent(message)
    \/ ClaudeDone(1)

SpecStream == Init /\ [][NextStream]_vars

\* The cleanup timers of index.ts and the shutdown handlers: the service is
\* deployed with the Claude backend alone or with both backends; each
\* session manager has its interval timer, started when the module loads;
\* the adapters look up and store entries; SIGINT or SIGTERM clears the
\* timers and closes the server, whose close callback ends the process.
\* The clock cannot pass the time a live timer is due without the timer
\* firing.  Here probe holds the timers and how far the shutdown has got.
MaxPeriods == 9      \* cleanup periods the clock of the timers spans

Cancelled == -1
Deployments == {{"claude-code"}, Backends}

\* Mutant: the interval is twice as long.
startCleanupInterval_Slow(time) == time + 2 * CLEANUP_INTERVAL_MS

\* setInterval(..., 5 * 60 * 1000) at time: when the timer is next due.
startCleanupInterval(time) == time + CLEANUP_INTERVAL_MS

\* Mutant: only the first timer is cleared.
onSignal_FirstOnly(timers) ==
    [b \in DOMAIN timers |-> IF b = "claude-code" THEN Cancelled ELSE timers[b]]

\* The clearInterval calls of the SIGINT and SIGTERM handlers.
onSignal(timers) == [b \in DOMAIN timers |-> Cancelled]

ReaperTimes == {k * CLEANUP_INTERVAL_MS + e : k \in 0..MaxPeriods, e \in {0, 1}}

\* Lookups and stores are taken up to this time, so that every entry's fate
\* is decided before the clock stops.
ActivityEnd ==
    MaxPeriods * CLEANUP_INTERVAL_MS - (IDLE_TIMEOUT_MS + CLEANUP_INTERVAL_MS)

InitReaper ==
    /\ sessions = [b \in Backends |-> NoSessions]
    /\ now = 0
    /\ turns = [t \in Slots |-> Idle]
    /\ response = NoResponse
    /\ lastSet = [b \in Backends |-> [c \in ConvIds |-> ""]]
    /\ fresh = [c \in ConvIds |-> FALSE]
    /\ \E deployed \in Deployments :
          probe = [timers |-> [b \in deployed |-> startCleanupInterval(0)],
                   shutdown |-> FALSE, exited |-> FALSE]
    /\ accepted = 0

ReaperTick(time) ==
    /\ ~probe.exited
    /\ time > now
    /\ \A b \in DOMAIN probe.timers :
          probe.timers[b] # Cancelled => time <= probe.timers[b]
    /\ now' = time
    /\ response' = NoResponse
    /\ UNCHANGED <<sessions, turns, lastSet, fresh, probe, accepted>>

\* The interval callback of the session manager of backend b.
ReaperFire(b) ==
    /\ ~probe.exited
    /\ b \in DOMAIN probe.timers
    /\ probe.timers[b] = now
    /\ LET swept == SessionManager_cleanup(sessions[b], now)
       IN  /\ sessions' = [sessions EXCEPT ![b] = swept.sessions]
           /\ response' = [kind |-> "sweep", backend |-> b, before |-> sessions[b],
                           at |-> now, value |-> swept.value,
                           logged |-> swept.value > 0]
    /\ probe' = [probe EXCEPT !.timers[b] = startCleanupInterval(now)]
    /\ UNCHANGED <<now, turns, lastSet, fresh, accepted>>

\* An adapter looks up, or stores, the entry of a conversation.
ReaperGet(b, conversationId) ==
    /\ ~probe.exited
    /\ b \in DOMAIN probe.timers
    /\ now <= ActivityEnd
    /\ LET got == SessionManager_get(sessions[b], conversationId, now)
       IN  /\ sessions' = [sessions EXCEPT ![b] = got.sessions]
           /\ response' = [kind |-> "get", value |-> got.value]
    /\ UNCHANGED <<now, turns, lastSet, fresh, probe, accepted>>

ReaperSet(b, conversationId) ==
    /\ ~probe.exited
    /\ b \in DOMAIN probe.timers
    /\ now <= ActivityEnd
    /\ sessions' = [sessions EXCEPT ![b] = SessionManager_set(@, conversationId, "s1", now)]
    /\ response' = NoResponse
    /\ UNCHANGED <<now, turns, lastSet, fresh, probe, accepted>>

\* process.on("SIGINT") / process.on("SIGTERM")
ReaperSignal ==
    /\ ~probe.exited
    /\ probe' = [probe EXCEPT !.timers = onSignal(@), !.shutdown = TRUE]
    /\ response' = [kind |-> "shutdown"]
    /\ UNCHANGED <<sessions, now, turns, lastSet, fresh, accepted>>

\* The callback of server.close: process.exit(0).
ReaperExit ==
    /\ probe.shutdown
    /\ ~probe.exited
    /\ probe' = [probe EXCEPT !.exited = TRUE]
    /\ response' = NoResponse
    /\ UNCHANGED <<sessions, now, turns, lastSet, fresh, accepted>>

ReaperAdvance == \E time \in ReaperTimes : ReaperTick(time)
ReaperSweep == \E b \in Backends : ReaperFire(b)

NextReaper ==
    \/ ReaperAdvance
    \/ ReaperSweep
    \/ \E b \in Backends, conversationId \in ConvIds : ReaperGet(b, conversationId)
    \/ \E b \in Backends, conversationId \in ConvIds : ReaperSet(b, conversationId)
    \/ ReaperSignal
    \/ ReaperExit

\* Time passes, and a timer that is due fires.
SpecReaper ==
    InitReaper /\ [][NextReaper]_vars /\ WF_vars(ReaperAdvance) /\ WF_vars(ReaperSweep)

\* The single-backend service (one session manager, the Claude adapter
\* alone) next to the two-backend service: every request, every backend
\* event and every quiet period reaches both.  The two-backend service is
\* in sessions, turns and response, the single-backend one in probe.
PairSelectors == {NoModel, <<>>, sonnet, codex \o <<"m", "i", "n", "i">>}

PairRequests ==
    [conversation_id : ConversationIdInputs, message : MessageInputs,
     working_dir : WorkingDirInputs, model : PairSelectors]

\* Mutant: deleted is reported only when both tables held the id.
DeleteAnswer_Both(deletedClaude, deletedCodex) ==
    [deleted |-> deletedClaude /\ deletedCodex]

\* The body DELETE /sessions/:conversationId sends in the two-backend service.
DeleteAnswer(deletedClaude, deletedCodex) ==
    [deleted |-> deletedClaude \/ deletedCodex]

\* The cleanup interval of the one session manager fires k times in a row.
RECURSIVE SingleIntervals(_, _, _)
SingleIntervals(table, time, k) ==
    IF k = 0 THEN table
    ELSE SingleIntervals(SessionManager_cleanup(table, time + CLEANUP_INTERVAL_MS).sessions,
                         time + CLEANUP_INTERVAL_MS, k - 1)

InitPair ==
    /\ sessions = [b \in Backends |-> NoSessions]
    /\ now = 0
    /\ turns = [t \in Slots |-> Idle]
    /\ response = NoResponse
    /\ lastSet = [b \in Backends |-> [c \in ConvIds |-> ""]]
    /\ fresh = [c \in ConvIds |-> FALSE]
    /\ probe = [sessions |-> NoSessions, turns |-> [t \in Slots |-> Idle],
                response |-> NoResponse]
    /\ accepted = 0

\* GET /health
PairHealth ==
    /\ response' = [kind |-> "health", status |-> 200,
                    body |-> [status |-> "ok",
                              active_sessions |->
                                  SessionManager_activeCount(sessions["claude-code"])
                                  + SessionManager_activeCount(sessions["codex"])]]
    /\ probe' = [probe EXCEPT !.response =
                    [kind |-> "health", status |-> 200,
                     body |-> [status |-> "ok",
                               active_sessions |->
                                   SessionManager_activeCount(probe.sessions)]]]
    /\ UNCHANGED <<sessions, now, turns, lastSet, fresh, accepted>>

\* POST /chat with conversation_id or message missing or empty.
PairChatReject(body) ==
    /\ Invalid(body)
    /\ response' = [kind |-> "chat", status |-> 400, body |-> ErrorBody(""),
                    model |-> body.model]
    /\ probe' = [probe EXCEPT !.response =
                    [kind |-> "chat", status |-> 400, body |-> ErrorBody(""),
                     model |-> body.model]]
    /\ UNCHANGED <<sessions, now, turns, lastSet, fresh, accepted>>

\* POST /chat with a valid body, up to the await of adapter.chat.
PairChatStart(t, body) ==
    /\ FreeSlot(t)
    /\ accepted < MaxChats
    /\ ~Invalid(body)
    /\ LET req == IF Truthy(body.working_dir) THEN body
                  ELSE [body EXCEPT !.working_dir = processCwd]
           b == BackendOf(req.model)
           begun == IF b = "codex"
                    THEN CodexAdapter_begin(sessions[b], req, now)
                    ELSE ClaudeAdapter_begin(sessions[b], req, now)
           single == ClaudeAdapter_begin(probe.sessions, req, now)
       IN  /\ sessions' = [sessions EXCEPT ![b] = begun.sessions]
           /\ turns' = [turns EXCEPT ![t] = begun.turn]
           /\ probe' = [sessions |-> single.sessions,
                        turns |-> [probe.turns EXCEPT ![t] = single.turn],
                        response |-> NoResponse]
    /\ response' = NoResponse
    /\ accepted' = accepted + 1
    /\ UNCHANGED <<now, lastSet, fresh>>

\* The Claude stream of the request in slot t yields one more message.
PairClaudeMessage(t, message) ==
    /\ turns[t].pc = "running"
    /\ turns[t].backend = "claude-code"
    /\ probe.turns[t].pc = "running"
    /\ turns' = [turns EXCEPT ![t] = ClaudeAdapter_onMessage(@, message)]
    /\ probe' = [probe EXCEPT !.turns[t] = ClaudeAdapter_onMessage(@, message),
                              !.response = NoResponse]
    /\ response' = NoResponse
    /\ UNCHANGED <<sessions, now, lastSet, fresh, accepted>>

\* adapter.chat of the request in slot t settles in both services: the
\* stream ends (err = NoFault) or throws err.
PairClaudeSettle(t, err) ==
    /\ turns[t].pc = "running"
    /\ turns[t].backend = "claude-code"
    /\ probe.turns[t].pc = "running"
    /\ LET outcome == IF err = NoFault
                      THEN ClaudeAdapter_end(sessions["claude-code"], turns[t], now)
                      ELSE ClaudeAdapter_catch(sessions["claude-code"], turns[t], err)
           single == IF err = NoFault
                     THEN ClaudeAdapter_end(probe.sessions, probe.turns[t], now)
                     ELSE ClaudeAdapter_catch(probe.sessions, probe.turns[t], err)
       IN  /\ sessions' = [sessions EXCEPT !["claude-code"] = outcome.sessions]
           /\ response' = [kind |-> "chat", status |-> ChatAnswer(outcome).status,
                           body |-> ChatAnswer(outcome).body,
                           model |-> turns[t].req.model]
           /\ probe' = [sessions |-> single.sessions,
                        turns |-> [probe.turns EXCEPT ![t] = Idle],
                        response |-> [kind |-> "chat", status |-> ChatAnswer(single).status,
                                      body |-> ChatAnswer(single).body,
                                      model |-> probe.turns[t].req.model]]
    /\ turns' = [turns EXCEPT ![t] = Idle]
    /\ UNCHANGED <<now, lastSet, fresh, accepted>>

\* DELETE /sessions/:conversationId
PairDelete(conversationId) ==
    LET deletedClaude == ClaudeAdapter_deleteSession(sessions["claude-code"], conversationId)
        deletedCodex == CodexAdapter_deleteSession(sessions["codex"], conversationId)
        deleted == ClaudeAdapter_deleteSession(probe.sessions, conversationId)
    IN  /\ sessions' = [sessions EXCEPT !["claude-code"] = deletedClaude.sessions,
                                        !["codex"] = deletedCodex.sessions]
        /\ response' = [kind |-> "delete", status |-> 200,
                        body |-> DeleteAnswer(deletedClaude.value, deletedCodex.value)]
        /\ probe' = [probe EXCEPT !.sessions = deleted.sessions,
                                  !.response = [kind |-> "delete", status |-> 200,
                                                body |-> [deleted |-> deleted.value]]]
        /\ UNCHANGED <<now, turns, lastSet, fresh, accepted>>

\* A quiet period of k cleanup intervals in both services.
PairQuiet(k) ==
    /\ now + k * CLEANUP_INTERVAL_MS <= MaxQuiet * IDLE_TIMEOUT_MS
    /\ sessions' = Intervals(sessions, now, k).sessions
    /\ probe' = [probe EXCEPT !.sessions = SingleIntervals(@, now, k),
                              !.response = NoResponse]
    /\ response' = NoResponse
    /\ now' = now + k * CLEANUP_INTERVAL_MS
    /\ UNCHANGED <<turns, lastSet, fresh, accepted>>

NextPair ==
    \/ PairHealth
    \/ \E body \in PairRequests : PairChatReject(body)
    \/ \E t \in Slots, body \in PairRequests : PairChatStart(t, body)
    \/ \E t \in Slots, message \in ClaudeMessages : PairClaudeMessage(t, message)
    \/ \E t \in Slots, err \in Faults \cup {NoFault} : PairClaudeSettle(t, err)
    \/ \E conversationId \in ConvIds : PairDelete(conversationId)
    \/ PairQuiet(QuietIntervals)

SpecPair == InitPair /\ [][NextPair]_vars

\* ------------------------------------------------- the Go client (claudecode)
\* llm.Message histories: every sequence of at most MaxMessages messages whose
\* Content is one of ContentLists.
MessageRoleUser == "user"
MessageRoleAssistant == "assistant"
ContentTypeText == "text"
ContentTypeToolResult == "tool_result"
StopReasonEndTurn == "end_turn"
StopReasonToolUse == "tool_use"

TextContent(text) == [Type |-> ContentTypeText, Text |-> text]
OtherContent == [Type |-> ContentTypeToolResult, Text |-> "aside"]

ContentLists ==
    {<<>>,
     <<TextContent("first")>>,
     <<TextContent("second")>>,
     <<TextContent("")>>,
     <<OtherContent>>,
     <<TextContent(""), TextContent("first")>>,
     <<OtherContent, TextContent("second")>>,
     <<TextContent("first"), TextContent("second")>>}

Messages == [Role : {MessageRoleUser, MessageRoleAssistant}, Content : ContentLists]

RECURSIVE Histories(_)
Histories(n) ==
    IF n = 0 THEN {<<>>}
    ELSE LET shorter == Histories(n - 1)
         IN  shorter \cup {Append(h, m) : h \in shorter, m \in Messages}

\* The inner loop of extractLastUserMessage, from content k on.
RECURSIVE firstText(_, _)
firstText(content, k) ==
    IF k > Len(content) THEN ""
    ELSE IF content[k].Type = ContentTypeText /\ content[k].Text # ""
         THEN content[k].Text
         ELSE firstText(content, k + 1)

\* Mutant: only the most recent user message is looked at.
RECURSIVE lastUserMessageFrom_Newest(_, _)
lastUserMessageFrom_Newest(messages, i) ==
    IF i = 0 THEN ""
    ELSE IF messages[i].Role # MessageRoleUser
         THEN lastUserMessageFrom_Newest(messages, i - 1)
         ELSE firstText(messages[i].Content, 1)

\* The outer loop of extractLastUserMessage, from message i down.
RECURSIVE lastUserMessageFrom(_, _)
lastUserMessageFrom(messages, i) ==
    IF i = 0 THEN ""
    ELSE IF messages[i].Role # MessageRoleUser
         THEN lastUserMessageFrom(messages, i - 1)
         ELSE LET text == firstText(messages[i].Content, 1)
              IN  IF text # "" THEN text
                  ELSE lastUserMessageFrom(messages, i - 1)

extractLastUserMessage(messages) == lastUserMessageFrom(messages, Len(messages))

\* What the HTTP round trip of Service.Do can come to: httpc.Do or the read
\* of the body fails, or a status arrives with a body that is a JSON object
\* (a field the object does not carry is not in its domain) or is not JSON.
With(r, f, v) == [g \in DOMAIN r \cup {f} |-> IF g = f THEN v ELSE r[g]]
EmptyObject == [f \in {} |-> ""]

OkBody ==
    [result |-> "Hi there!", session_id |-> "s1",
     usage |-> [input_tokens |-> 100, output_tokens |-> 50], is_error |-> FALSE]
FailedBody ==
    [result |-> "rate limited", session_id |-> "s1",
     usage |-> [input_tokens |-> 0, output_tokens |-> 0], is_error |-> TRUE]

WireBodies ==
    {[json |-> TRUE, value |-> v] :
        v \in {OkBody, With(OkBody, "compacted", TRUE), With(OkBody, "compacted", FALSE),
               FailedBody, With(FailedBody, "compacted", TRUE),
               ErrorBody(""), ErrorBody("Internal bridge error"), EmptyObject}}
    \cup {[json |-> FALSE]}

StatusOK == 200
Statuses == {StatusOK, 400, 500, 503}

Wires ==
    {[kind |-> "request failed"], [kind |-> "read failed"]}
    \cup {[kind |-> "http", status |-> st, body |-> body] :
             st \in Statuses, body \in WireBodies}

\* json.Unmarshal into bridgeChatResponse: an absent field keeps its zero
\* value.  The token counts of WireBodies and TokenContextWindow are far
\* below 2^64, so the uint64 fields hold them as they are.
bridgeChatResponse(object) ==
    [Result |-> IF Has(object, "result") THEN object.result ELSE "",
     SessionID |-> IF Has(object, "session_id") THEN object.session_id ELSE "",
     Usage |-> IF Has(object, "usage")
               THEN [InputTokens |-> object.usage.input_tokens,
                     OutputTokens |-> object.usage.output_tokens]
               ELSE [InputTokens |-> 0, OutputTokens |-> 0],
     IsError |-> IF Has(object, "is_error") THEN object.is_error ELSE FALSE,
     Compacted |-> IF Has(object, "compacted") THEN object.compacted ELSE FALSE]

\* Mutant: half the window.
TokenContextWindow_Half == 200000 \div 2

TokenContextWindow == 200000

NoError == [text |-> ""]
Nil == [nil |-> TRUE]

\* Mutant: the turn is reported as stopped for a tool call.
Service_Do_response_ToolUse(bridgeResp) ==
    [Role |-> MessageRoleAssistant,
     Content |-> <<TextContent(bridgeResp.Result)>>,
     StopReason |-> StopReasonToolUse,
     Usage |-> [InputTokens |-> bridgeResp.Usage.InputTokens,
                OutputTokens |-> bridgeResp.Usage.OutputTokens]]

\* Do, from the usage override to the llm.Response it returns.
Service_Do_response(bridgeResp) ==
    [Role |-> MessageRoleAssistant,
     Content |-> <<TextContent(bridgeResp.Result)>>,
     StopReason |-> StopReasonEndTurn,
     Usage |-> IF bridgeResp.Compacted
               THEN [InputTokens |-> TokenContextWindow, OutputTokens |-> 0]
               ELSE [InputTokens |-> bridgeResp.Usage.InputTokens,
                     OutputTokens |-> bridgeResp.Usage.OutputTokens]]

\* Mutant: the request goes out whether or not a user message was found.
Service_Do_request_Always(messages, conversationID, model) ==
    [err |-> NoError,
     request |-> [conversation_id |-> conversationID,
                  message |-> extractLastUserMessage(messages),
                  working_dir |-> ""]]

\* Do, up to httpc.Do: the error it returns at once, or the body it posts.
Service_Do_request(messages, conversationID, model) ==
    LET userMessage == extractLastUserMessage(messages)
        bridgeReq == [conversation_id |-> IF conversationID = "" THEN "default"
                                          ELSE conversationID,
                      message |-> userMessage,
                      working_dir |-> ""]
    IN  IF userMessage = ""
        THEN [err |-> [text |-> "claudecode: no user message found in request"]]
        ELSE [err |-> NoError,
              request |-> IF model = "" THEN bridgeReq
                          ELSE With(bridgeReq, "model", model)]

\* Mutant: the is_error flag of the body is not looked at.
Service_Do_result_IgnoreIsError(wire) ==
    IF wire.kind # "http" \/ wire.status # StatusOK \/ ~wire.body.json
    THEN [response |-> Nil, err |-> [text |-> "claudecode: failed"]]
    ELSE [response |-> Service_Do_response(bridgeChatResponse(wire.body.value)),
          err |-> NoError]

\* Do, from the return of httpc.Do on.
Service_Do_result(wire) ==
    IF wire.kind = "request failed"
    THEN [response |-> Nil, err |-> [text |-> "claudecode: bridge request failed"]]
    ELSE IF wire.kind = "read failed"
    THEN [response |-> Nil, err |-> [text |-> "claudecode: failed to read bridge response"]]
    ELSE IF wire.status # StatusOK
    THEN [response |-> Nil,
          err |-> [text |-> "claudecode: bridge returned status", status |-> wire.status]]
    ELSE IF ~wire.body.json
    THEN [response |-> Nil, err |-> [text |-> "claudecode: failed to unmarshal bridge response"]]
    ELSE LET bridgeResp == bridgeChatResponse(wire.body.value)
         IN  IF bridgeResp.IsError
             THEN [response |-> Nil,
                   err |-> [text |-> "claudecode: bridge error", result |-> bridgeResp.Result]]
             ELSE [response |-> Service_Do_response(bridgeResp), err |-> NoError]

\* One Service.Do call: entered with its arguments, blocked in httpc.Do
\* after posting, returned.
ConversationIDs == {"", "c1"}
ServiceModels == {"", "codex"}

DoEnter(messages, conversationID, model) ==
    /\ probe.pc = "idle"
    /\ probe' = [pc |-> "entered", messages |-> messages,
                 conversationID |-> conversationID, model |-> model]
    /\ UNCHANGED <<sessions, now, turns, response, lastSet, fresh, accepted>>

DoPost ==
    /\ probe.pc = "entered"
    /\ LET prepared == Service_Do_request(probe.messages, probe.conversationID, probe.model)
       IN  probe' = IF prepared.err # NoError
                    THEN [pc |-> "returned", sent |-> <<>>,
                          response |-> Nil, err |-> prepared.err,
                          messages |-> probe.messages]
                    ELSE [pc |-> "posted", sent |-> <<prepared.request>>]
    /\ UNCHANGED <<sessions, now, turns, response, lastSet, fresh, accepted>>

DoReturn(wire) ==
    /\ probe.pc = "posted"
    /\ LET result == Service_Do_result(wire)
       IN  probe' = [pc |-> "returned", sent |-> probe.sent, wire |-> wire,
                     response |-> result.response, err |-> result.err]
    /\ UNCHANGED <<sessions, now, turns, response, lastSet, fresh, accepted>>

InitDo ==
    /\ sessions = [b \in Backends |-> NoSessions]
    /\ now = 0
    /\ turns = [t \in Slots |-> Idle]
    /\ response = NoResponse
    /\ lastSet = [b \in Backends |-> [c \in ConvIds |-> ""]]
    /\ fresh = [c \in ConvIds |-> FALSE]
    /\ probe = [pc |-> "idle"]
    /\ accepted = 0

NextDo ==
    \/ /\ probe.pc = "idle"
       /\ \E messages \in Histories(MaxMessages), conversationID \in ConversationIDs,
             model \in ServiceModels : DoEnter(messages, conversationID, model)
    \/ DoPost
    \/ \E wire \in Wires : DoReturn(wire)

SpecDo == InitDo /\ [][NextDo]_vars

\* ==================================================================== claims
Starts(t) == turns[t].pc = "idle" /\ turns'[t].pc = "running"
Settles(t) == turns[t].pc = "running" /\ turns'[t].pc = "idle"

\* The step just taken answered a chat request that reached an adapter.
Answered == response.kind = "chat" /\ response.status # 400
AnsweredOk == Answered /\ response.status = 200 /\ ~response.body.is_error
AnsweredFor(b, c) ==
    Answered /\ response.ctx.backend = b /\ response.ctx.conversation_id = c

Stored(b, c) == IF c \in DOMAIN sessions[b] THEN sessions[b][c].sessionId ELSE Undefined
OrEmpty(h) == IF Truthy(h) THEN h ELSE ""

C2_FirstSuccessStoresHandle ==
    (AnsweredOk /\ response.ctx.existing = Undefined)
    => Truthy(Stored(response.ctx.backend, response.ctx.conversation_id))

\* C2 (amended): the lookup of an id without an entry returns absent and
\* creates no entry; when that chat call completes without error having
\* captured a handle, the table holds an entry for the id with that handle,
\* and when it completes without error having captured none, it leaves the
\* table as it was.
C2_FirstSuccessStoresCapturedHandle ==
    [][\A t \in Slots :
          /\ Starts(t) =>
                LET b == turns'[t].backend
                    c == turns'[t].req.conversation_id
                IN  c \notin DOMAIN sessions[b]
                    => /\ Existing(turns'[t]) = Undefined
                       /\ sessions' = sessions
          /\ (Settles(t) /\ Existing(turns[t]) = Undefined
                /\ response'.status = 200 /\ ~response'.body.is_error) =>
                LET b == turns[t].backend
                    c == turns[t].req.conversation_id
                    captured == response'.ctx.captured
                IN  IF Truthy(captured)
                    THEN /\ c \in DOMAIN sessions'[b]
                         /\ sessions'[b][c].sessionId = captured
                    ELSE sessions' = sessions]_vars

\* C2 witness: a first chat call has just completed without error and its
\* handle is stored.
C2_Witness ==
    /\ AnsweredOk
    /\ response.ctx.existing = Undefined
    /\ Truthy(response.ctx.captured)
    /\ Stored(response.ctx.backend, response.ctx.conversation_id) = response.ctx.captured

\* C3 (as stated): the backend is asked for a new session exactly once: a
\* chat call that asks for a new session starts neither while another call
\* which asked for one for the same conversation id and backend is in
\* flight, nor right after such a call was answered (no delete in between).
C3_NewSessionOnce ==
    [][\A t \in Slots :
          LET b == turns'[t].backend
              c == turns'[t].req.conversation_id
          IN  (Starts(t) /\ ResumeHandle(turns'[t]) = Undefined /\ ~fresh[c])
              => /\ \A u \in InFlight(b, c) : ResumeHandle(turns[u]) # Undefined
                 /\ ~(AnsweredFor(b, c) /\ response.ctx.resume = Undefined)]_vars

\* C3 (amended): in every interleaving, a chat call asks the backend for a
\* new session exactly when no chat call for its conversation id and backend
\* has completed successfully with a handle since the id was last deleted or
\* reaped there; every other call passes a resume handle.
C3_NewSessionIffNothingStored ==
    [][\A t \in Slots :
          Starts(t) =>
             (ResumeHandle(turns'[t]) = Undefined
              <=> lastSet[turns'[t].backend][turns'[t].req.conversation_id] = "")]_vars

\* C3 witness: two overlapping chat calls for one conversation id on one
\* backend, started while nothing was stored: each asked for a new session.
C3_Witness ==
    \E t, u \in Slots :
        /\ t # u
        /\ turns[t].pc = "running" /\ turns[u].pc = "running"
        /\ turns[t].backend = turns[u].backend
        /\ turns[t].req.conversation_id = turns[u].req.conversation_id
        /\ lastSet[turns[t].backend][turns[t].req.conversation_id] = ""
        /\ ResumeHandle(turns[t]) = Undefined
        /\ ResumeHandle(turns[u]) = Undefined

\* C4: a POST /chat whose conversation_id or message is missing or empty is
\* answered 400 with is_error, empty result, empty session_id and zero
\* usage; it starts no adapter call and changes no session table entry; and
\* no adapter call is ever started for such a request.
C4_InvalidRequestRejected ==
    [][/\ (response'.kind = "chat" /\ response'.status = 400)
          => /\ response'.body = [result |-> "", session_id |-> "",
                                  usage |-> [input_tokens |-> 0, output_tokens |-> 0],
                                  is_error |-> TRUE]
             /\ (~Truthy(response'.ctx.conversation_id) \/ ~Truthy(response'.ctx.message))
             /\ sessions' = sessions
             /\ turns' = turns
       /\ \A t \in Slots :
             turns'[t].pc = "running"
             => /\ Truthy(turns'[t].req.conversation_id)
                /\ Truthy(turns'[t].req.message)]_vars

\* C4 witness: a request with a conversation id but an empty message has
\* just been rejected while a session is stored.
C4_Witness ==
    /\ response.kind = "chat"
    /\ response.status = 400
    /\ response.ctx.conversation_id \in ConvIds
    /\ response.ctx.message = ""
    /\ \E b \in Backends : DOMAIN sessions[b] # {}

C6_ErrorSessionIdBestKnown ==
    (Answered /\ response.body.is_error) =>
        response.body.session_id =
            IF Truthy(response.ctx.captured) THEN response.ctx.captured
            ELSE IF Truthy(response.ctx.existing) THEN response.ctx.existing
            ELSE ""

\* C6 witness: a failed turn that had captured a handle other than the one
\* it looked up.
C6_Witness ==
    /\ Answered
    /\ response.body.is_error
    /\ Truthy(response.ctx.captured)
    /\ Truthy(response.ctx.existing)
    /\ response.ctx.captured # response.ctx.existing

\* C7 (as stated): when the backend call raises a fault with message m, the
\* answer has is_error, result m and the session_id that was stored for the
\* conversation before the call (empty if none).
C7_FaultEchoesStoredHandle ==
    (Answered /\ response.ctx.fault # NoFault /\ response.ctx.fault.instanceofError) =>
        /\ response.body.is_error
        /\ response.body.result = response.ctx.fault.message
        /\ response.body.session_id = OrEmpty(response.ctx.existing)

\* C7 (amended): when the backend call raises a fault with message m, the
\* answer has is_error and result m; its session_id is the handle stored for
\* the conversation before the call (empty if none) unless the turn captured
\* a handle from an init message before the fault, and then it is the
\* captured handle.  A Codex turn captures none before a fault.
C7_FaultEchoesCapturedOrStoredHandle ==
    (Answered /\ response.ctx.fault # NoFault /\ response.ctx.fault.instanceofError) =>
        /\ response.body.is_error
        /\ response.body.result = response.ctx.fault.message
        /\ response.ctx.captured = "" =>
              response.body.session_id = OrEmpty(response.ctx.existing)
        /\ response.ctx.captured # "" =>
              response.body.session_id = response.ctx.captured
        /\ response.ctx.backend = "codex" => response.ctx.captured = ""

\* C7 witness: a Codex call on a stored thread has just failed with
\* "rate limited".
C7_Witness ==
    /\ Answered
    /\ response.ctx.backend = "codex"
    /\ response.ctx.fault # NoFault
    /\ response.body.result = "rate limited"
    /\ Truthy(response.ctx.existing)
    /\ response.body.session_id = response.ctx.existing

\* C8: the backend chosen for a selector is "codex" exactly when the
\* selector is "codex" or begins with "codex-", and the default backend for
\* every other selector, the absent and the empty one included.
C8_RouteBySelector ==
    probe.backend # "none" =>
        LET m == probe.model
            exact == m # NoModel /\ Len(m) = 5
                     /\ m[1] = "c" /\ m[2] = "o" /\ m[3] = "d" /\ m[4] = "e" /\ m[5] = "x"
            family == m # NoModel /\ Len(m) >= 6
                      /\ m[1] = "c" /\ m[2] = "o" /\ m[3] = "d" /\ m[4] = "e" /\ m[5] = "x"
                      /\ m[6] = "-"
        IN  probe.backend = IF exact \/ family THEN "codex" ELSE "claude-code"

\* C8 witness: a selector of the "codex-" family other than "codex-" itself
\* has been routed to the Codex adapter.
C8_Witness ==
    /\ probe.backend = "codex"
    /\ Len(probe.model) > 6

\* C9: delete on an id without an entry returns false and leaves the table
\* unchanged; on an id with an entry it returns true; a get performed next
\* returns absent and a second delete returns false.
C9_DeleteSemantics ==
    [][response'.kind = "delete" =>
          LET c == response'.ctx.conversation_id
              returned == [b \in Backends |->
                              IF b = "codex" THEN response'.ctx.deletedCodex
                              ELSE response'.ctx.deletedClaude]
          IN  \A b \in Backends :
                 /\ returned[b] = (c \in DOMAIN sessions[b])
                 /\ ~returned[b] => sessions'[b] = sessions[b]
                 /\ SessionManager_get(sessions'[b], c, now).value = Undefined
                 /\ ~SessionManager_delete(sessions'[b], c).value
                 /\ \A other \in ConvIds \ {c} : Stored(b, other)' = Stored(b, other)]_vars

\* C9 witness: a delete has just removed an entry.
C9_Witness ==
    /\ response.kind = "delete"
    /\ response.ctx.deletedClaude
    /\ response.ctx.conversation_id \notin DOMAIN sessions["claude-code"]

\* C10: after DELETE /sessions/c has been answered, the next chat request
\* for c invokes the backend without a resume handle.
C10_NewSessionAfterDelete ==
    [][\A t \in Slots :
          (Starts(t) /\ fresh[turns'[t].req.conversation_id])
          => ResumeHandle(turns'[t]) = Undefined]_vars
\* C11: DELETE /sessions/c leaves no entry for c in either table, touches no
\* other entry, and answers deleted = true exactly when at least one of the
\* two tables held an entry for c; when neither did, nothing changes.
C11_DeleteFansOut ==
    [][response'.kind = "delete" =>
          LET c == response'.ctx.conversation_id
              held == \E b \in Backends : c \in DOMAIN sessions[b]
          IN  /\ \A b \in Backends :
                    /\ c \notin DOMAIN sessions'[b]
                    /\ sessions'[b] = Without(sessions[b], {c})
              /\ response'.status = 200
              /\ response'.body = [deleted |-> held]
              /\ ~held => sessions' = sessions]_vars

\* C11 witness: a delete has just been answered deleted = true for an id
\* that only the Codex table held, while the Claude table holds another id.
C11_Witness ==
    /\ response.kind = "delete"
    /\ response.body.deleted
    /\ response.ctx.deletedCodex
    /\ ~response.ctx.deletedClaude
    /\ DOMAIN sessions["claude-code"] # {}
\* C12: cleanup run at time now removes exactly the entries idle for more
\* than 30 minutes (1800000 ms), an entry idle for exactly 30 minutes
\* included among those that stay; it returns the number removed and leaves
\* the handle and lastActivity of every other entry as they were.
C12_CleanupRemovesExactlyIdle ==
    response.kind = "sweep" =>
        LET before == response.before
            after == sessions["claude-code"]
            idle == {id \in DOMAIN before :
                        response.at - before[id].lastActivity > 1800000}
        IN  /\ DOMAIN after = (DOMAIN before) \ idle
            /\ \A id \in DOMAIN after : after[id] = before[id]
            /\ response.value = Cardinality(idle)

\* C12 witness: a cleanup has just removed one entry and kept another that
\* had been idle for exactly 30 minutes.
C12_Witness ==
    /\ response.kind = "sweep"
    /\ response.value = 1
    /\ \E id \in DOMAIN sessions["claude-code"] :
          response.at - sessions["claude-code"][id].lastActivity = 1800000
\* C13: GET /health answers 200 with status "ok" and active_sessions equal
\* to the number of entries of the Claude table plus the number of entries
\* of the Codex table at that moment, and changes no entry of either table.
C13_HealthCountsBothTables ==
    [][response'.kind = "health" =>
          /\ response'.status = 200
          /\ response'.body =
                 [status |-> "ok",
                  active_sessions |-> Cardinality(DOMAIN sessions["claude-code"])
                                      + Cardinality(DOMAIN sessions["codex"])]
          /\ sessions' = sessions]_vars

\* C13 witness: a health check has just counted two entries, both held by
\* one table.
C13_Witness ==
    /\ response.kind = "health"
    /\ response.body.active_sessions = 2
    /\ \E b \in Backends : Cardinality(DOMAIN sessions[b]) = 2
\* What one Service.Do call was handed by the bridge, as JSON.
Returned == probe.pc = "returned" /\ Has(probe, "wire")
WireObject == probe.wire.body.value
WireSuccess ==
    /\ Returned
    /\ probe.wire.kind = "http"
    /\ probe.wire.status = 200
    /\ probe.wire.body.json
    /\ ~(Has(WireObject, "is_error") /\ WireObject.is_error)

\* C14: for a bridge response with status 200 and is_error not set, Do
\* reports InputTokens 200000 and OutputTokens 0 when the body's compacted
\* flag is true, and the body's input_tokens and output_tokens when the flag
\* is false or absent.
C14_CompactionOverridesUsage ==
    WireSuccess =>
        /\ probe.response # Nil
        /\ probe.response.Usage =
              IF Has(WireObject, "compacted") /\ WireObject.compacted
              THEN [InputTokens |-> 200000, OutputTokens |-> 0]
              ELSE IF Has(WireObject, "usage")
                   THEN [InputTokens |-> WireObject.usage.input_tokens,
                         OutputTokens |-> WireObject.usage.output_tokens]
                   ELSE [InputTokens |-> 0, OutputTokens |-> 0]

\* C14 witness: Do has returned for a compacted response that carried 100
\* input and 50 output tokens.
C14_Witness ==
    /\ WireSuccess
    /\ Has(WireObject, "compacted") /\ WireObject.compacted
    /\ WireObject.usage = [input_tokens |-> 100, output_tokens |-> 50]
    /\ probe.response.Usage.InputTokens = 200000

\* C15: a Do call that returns no error returns an assistant response whose
\* content is exactly one text content equal to the bridge's result, with
\* stop reason end-of-turn; and a response is returned only without error.
C15_SuccessIsOneTextEndTurn ==
    probe.pc = "returned" =>
        /\ probe.err = NoError =>
              /\ Returned
              /\ probe.response # Nil
              /\ probe.response.Role = "assistant"
              /\ Len(probe.response.Content) = 1
              /\ probe.response.Content[1].Type = "text"
              /\ probe.response.Content[1].Text =
                    (IF Has(WireObject, "result") THEN WireObject.result ELSE "")
              /\ probe.response.StopReason = "end_turn"
        /\ probe.response # Nil => probe.err = NoError

\* C15 witness: Do has returned the text "Hi there!" without error.
C15_Witness ==
    /\ probe.pc = "returned"
    /\ probe.err = NoError
    /\ probe.response.Content = <<[Type |-> "text", Text |-> "Hi there!"]>>
    /\ probe.sent # <<>>

\* C16: when the bridge answers with a status other than 200, or with a
\* body whose is_error flag is true, Do returns an error and no response.
C16_BridgeFailureIsError ==
    (/\ Returned
     /\ probe.wire.kind = "http"
     /\ \/ probe.wire.status # 200
        \/ (probe.wire.body.json /\ Has(WireObject, "is_error") /\ WireObject.is_error))
    => /\ probe.response = Nil
       /\ probe.err # NoError

\* C16 witness: Do has returned an error for a 200 answer flagged is_error.
C16_Witness ==
    /\ Returned
    /\ probe.wire.kind = "http"
    /\ probe.wire.status = 200
    /\ probe.wire.body.json
    /\ Has(WireObject, "is_error") /\ WireObject.is_error
    /\ probe.response = Nil

\* C17: a Do call whose message history holds no message of the user role
\* returns the "no user message" error and no response, and has sent no HTTP
\* request.
C17_NoUserMessageNoRequest ==
    [][(/\ probe.pc = "entered"
        /\ probe'.pc # "entered"
        /\ \A i \in 1..Len(probe.messages) : probe.messages[i].Role # "user")
       => /\ probe'.pc = "returned"
          /\ probe'.sent = <<>>
          /\ probe'.response = Nil
          /\ probe'.err = [text |-> "claudecode: no user message found in request"]]_vars

\* C17 witness: Do has returned without sending for a non-empty history of
\* assistant messages only.
C17_Witness ==
    /\ probe.pc = "returned"
    /\ probe.sent = <<>>
    /\ Has(probe, "messages")
    /\ Len(probe.messages) > 0
    /\ \A i \in 1..Len(probe.messages) : probe.messages[i].Role = "assistant"
\* The text Do extracted from its history, seen in the step that follows the
\* call: the message it posts, or "" when it returns at once.
Extracted == IF probe'.pc = "posted" THEN probe'.sent[1].message ELSE ""
Extracts == probe.pc = "entered" /\ probe'.pc # "entered"

UserIndexes(messages) == {i \in 1..Len(messages) : messages[i].Role = "user"}
TextIndexes(content) ==
    {k \in 1..Len(content) : content[k].Type = "text" /\ content[k].Text # ""}
Max(S) == CHOOSE x \in S : \A y \in S : y <= x
Min(S) == CHOOSE x \in S : \A y \in S : x <= y
\* The text of a message: that of its first text content that is not empty.
TextOf(message) ==
    IF TextIndexes(message.Content) = {} THEN ""
    ELSE message.Content[Min(TextIndexes(message.Content))].Text

C20_UncaughtFaultIs500 ==
    [][\A t \in Slots :
          /\ (Settles(t) /\ response'.ctx.raised) =>
                /\ response'.status = 500
                /\ response'.body = [result |-> "Internal bridge error", session_id |-> "",
                                     usage |-> [input_tokens |-> 0, output_tokens |-> 0],
                                     is_error |-> TRUE]
                /\ sessions' = sessions
                /\ turns' = [turns EXCEPT ![t] = Idle]
          /\ (Settles(t) /\ response'.status = 500) => response'.ctx.raised
          /\ (Starts(t) /\ response.kind = "chat" /\ response.status = 500) =>
                LET b == turns'[t].backend
                    c == turns'[t].req.conversation_id
                IN  /\ Existing(turns'[t]) = Stored(b, c)
                    /\ ResumeHandle(turns'[t]) =
                          (IF Truthy(Stored(b, c)) THEN Stored(b, c) ELSE Undefined)
                    /\ \A other \in Backends \ {b} : sessions'[other] = sessions[other]]_vars

\* C20 witness: a 500 has just been answered for a conversation whose entry,
\* stored by an earlier turn, is still in the table.
C20_Witness ==
    /\ response.kind = "chat"
    /\ response.status = 500
    /\ Truthy(Stored(response.ctx.backend, response.ctx.conversation_id))

\* C21: chat turns for one conversation id on one backend may overlap: a
\* turn that starts reads whatever handle is stored at that moment, whether
\* or not another turn for the id is in flight, and leaves that turn in
\* flight; and every turn that completes without error having captured a
\* handle leaves exactly that handle stored, whatever handle another turn
\* wrote meanwhile, so that the set executed last decides the stored handle.
C21_LastSetWins ==
    [][\A t \in Slots :
          /\ Starts(t) =>
                LET b == turns'[t].backend
                    c == turns'[t].req.conversation_id
                IN  /\ Existing(turns'[t]) = Stored(b, c)
                    /\ \A u \in InFlight(b, c) : turns'[u] = turns[u]
          /\ (Settles(t) /\ response'.status = 200 /\ ~response'.body.is_error
                /\ Truthy(response'.ctx.captured)) =>
                LET b == turns[t].backend
                    c == turns[t].req.conversation_id
                IN  /\ c \in DOMAIN sessions'[b]
                    /\ sessions'[b][c] = [sessionId |-> response'.ctx.captured,
                                          lastActivity |-> now]
                    /\ lastSet'[b][c] = response'.ctx.captured]_vars

\* C21 witness: of two overlapping turns that both found nothing stored, the
\* second has just completed: the handle the first wrote was stored until
\* then, and now the second's handle, a different one, is stored instead.
C21_Witness ==
    /\ AnsweredOk
    /\ accepted = 2
    /\ response.ctx.existing = Undefined
    /\ Truthy(response.ctx.stored)
    /\ Truthy(response.ctx.captured)
    /\ response.ctx.stored # response.ctx.captured
    /\ Stored(response.ctx.backend, response.ctx.conversation_id) = response.ctx.captured

\* C22: in every reachable state every entry of both session tables holds a
\* non-empty handle, one the backend reported.
C22_HandleNeverEmpty ==
    \A b \in Backends : \A c \in DOMAIN sessions[b] :
        /\ sessions[b][c].sessionId # ""
        /\ sessions[b][c].sessionId # Undefined
        /\ sessions[b][c].sessionId \in Handles

\* C22 witness: a turn has just completed without error and without a
\* handle, and the entry of its conversation still holds the handle an
\* earlier turn stored.
C22_Witness ==
    /\ AnsweredOk
    /\ response.ctx.captured = ""
    /\ Truthy(Stored(response.ctx.backend, response.ctx.conversation_id))

\* C23: get on an id with an entry returns the entry's handle and sets its
\* lastActivity to the current time, changing neither the handle nor any
\* other entry; get on an id without an entry returns absent and changes
\* nothing.  An entry's lastActivity changes only in a get or a set of the
\* table, and then to the current time, and cleanup removes an entry only
\* when the current time exceeds its lastActivity by more than the timeout:
\* so an entry is removed only when more than the timeout has passed since
\* both its last get and its last set.
C23_ReadIsActivity ==
    [][LET table == sessions["claude-code"]
           after == sessions'["claude-code"]
       IN  /\ response'.kind = "get" =>
                 \E c \in ConvIds :
                    IF c \in DOMAIN table
                    THEN /\ response'.value = table[c].sessionId
                         /\ DOMAIN after = DOMAIN table
                         /\ after[c] = [sessionId |-> table[c].sessionId,
                                        lastActivity |-> now]
                         /\ \A other \in (DOMAIN table) \ {c} : after[other] = table[other]
                    ELSE /\ response'.value = Undefined
                         /\ after = table
           /\ \A c \in DOMAIN after :
                 (c \notin DOMAIN table \/ after[c].lastActivity # table[c].lastActivity)
                 => /\ after[c].lastActivity = now
                    /\ now' = now
                    /\ response'.kind \in {"get", "none"}
           /\ \A c \in (DOMAIN table) \ DOMAIN after :
                 response'.kind = "sweep" => now - table[c].lastActivity > IDLE_TIMEOUT_MS]_vars

\* C23 witness: more than the timeout after the start, a get has just
\* returned the handle of an entry and refreshed it, while the other entry
\* of the table keeps its older lastActivity.
C23_Witness ==
    /\ response.kind = "get"
    /\ Truthy(response.value)
    /\ now > IDLE_TIMEOUT_MS
    /\ \E c, d \in DOMAIN sessions["claude-code"] :
          /\ sessions["claude-code"][c].sessionId = response.value
          /\ sessions["claude-code"][c].lastActivity = now
          /\ sessions["claude-code"][d].lastActivity < now

\* C24: an entry comes into a session table only in the step that answers a
\* chat turn for its conversation id on that backend which completed without
\* error and captured a non-empty handle; an entry leaves a table only in
\* the answer to a DELETE for its id or in a cleanup; and the steps that
\* answer a failed turn or a rejected request, answer a health check or
\* start a turn (the lookup) leave the set of entries of both tables as it is.
C24_EntriesCreatedAndRemovedOnlyBy ==
    [][/\ \A b \in Backends : \A c \in ConvIds :
             /\ (c \notin DOMAIN sessions[b] /\ c \in DOMAIN sessions'[b]) =>
                   /\ response'.kind = "chat"
                   /\ response'.status = 200
                   /\ ~response'.body.is_error
                   /\ response'.ctx.backend = b
                   /\ response'.ctx.conversation_id = c
                   /\ Truthy(response'.ctx.captured)
                   /\ sessions'[b][c].sessionId = response'.ctx.captured
             /\ (c \in DOMAIN sessions[b] /\ c \notin DOMAIN sessions'[b]) =>
                   \/ response'.kind = "delete" /\ response'.ctx.conversation_id = c
                   \/ response'.kind = "cleanup"
       /\ (\/ response'.kind = "chat" /\ response'.body.is_error
           \/ response'.kind = "health"
           \/ \E t \in Slots : Starts(t))
          => \A b \in Backends :
                /\ DOMAIN sessions'[b] = DOMAIN sessions[b]
                /\ \A c \in DOMAIN sessions[b] :
                      sessions'[b][c].sessionId = sessions[b][c].sessionId]_vars

\* C24 witness: a Claude turn that had captured a handle has just failed,
\* and its conversation has no entry.
C24_Witness ==
    /\ Answered
    /\ response.body.is_error
    /\ Truthy(response.ctx.captured)
    /\ Stored(response.ctx.backend, response.ctx.conversation_id) = Undefined

ResultIndexes(events) == {i \in 1..Len(events) : Has(events[i], "result")}
InitIndexes(events) ==
    {i \in 1..Len(events) : events[i].type = "system" /\ events[i].subtype = "init"}
InputIndexes(events) == {i \in 1..Len(events) : Has(events[i], "input_tokens")}
OutputIndexes(events) == {i \in 1..Len(events) : Has(events[i], "output_tokens")}
Compactions(events) ==
    {i \in 1..Len(events) :
        events[i].type = "system" /\ events[i].subtype = "compact_boundary"}

\* C26: when a Claude stream has been consumed to its end, the answer's text
\* is the result of the last event that carries one ("" if none), its token
\* counts are the last ones reported (0 if none was), and it carries
\* compacted, as true, exactly when a compact_boundary event occurred; the
\* handle of the turn is the session_id of the last init event ("" if there
\* was none), and the table is written exactly when that handle is not
\* empty: the conversation's entry then becomes this handle with the current
\* time, whatever was stored, and otherwise both tables stay as they were.
C26_StreamConsumption ==
    [][(Settles(1) /\ response'.kind = "chat") =>
          LET events == probe.events
              c == turns[1].req.conversation_id
              results == ResultIndexes(events)
              inits == InitIndexes(events)
              ins == InputIndexes(events)
              outs == OutputIndexes(events)
              handle == IF inits = {} THEN "" ELSE events[Max(inits)].session_id
          IN  /\ response'.status = 200
              /\ ~response'.body.is_error
              /\ response'.body.result =
                    (IF results = {} THEN "" ELSE events[Max(results)].result)
              /\ response'.body.usage =
                    [input_tokens |-> IF ins = {} THEN 0 ELSE events[Max(ins)].input_tokens,
                     output_tokens |-> IF outs = {} THEN 0
                                       ELSE events[Max(outs)].output_tokens]
              /\ Has(response'.body, "compacted") <=> Compactions(events) # {}
              /\ Has(response'.body, "compacted") => response'.body.compacted
              /\ response'.ctx.captured = handle
              /\ sessions' =
                    IF handle # ""
                    THEN [sessions EXCEPT !["claude-code"] =
                            [id \in DOMAIN @ \cup {c} |->
                                IF id = c THEN [sessionId |-> handle, lastActivity |-> now]
                                ELSE @[id]]]
                    ELSE sessions]_vars

\* C26 witness: a stream of an init event, a compaction and two results has
\* just been consumed on a conversation that had another handle stored: the
\* answer carries the second result and compacted, and the new handle is
\* stored.
C26_Witness ==
    /\ response.kind = "chat"
    /\ Has(probe, "events")
    /\ Len(probe.events) = 4
    /\ ResultIndexes(probe.events) = {3, 4}
    /\ probe.events[3].result # probe.events[4].result
    /\ response.body.result = probe.events[4].result
    /\ Has(response.body, "compacted")
    /\ Truthy(response.ctx.stored)
    /\ Truthy(response.ctx.captured)
    /\ response.ctx.stored # response.ctx.captured
    /\ Stored("claude-code", response.ctx.conversation_id) = response.ctx.captured

\* The entry of conversation c in the table of backend b, if there is one.
Entry(b, c) == IF c \in DOMAIN sessions[b] THEN sessions[b][c] ELSE [absent |-> TRUE]

\* C27: every step of a chat call (its start with the lookup, a stream
\* message, its answer) and every rejected request leaves all entries but
\* one as they were, handle and lastActivity: the only entry that may change
\* is the one of the call's own conversation id in the table of the backend
\* the call was routed to.  The two tables are independent, so one
\* conversation id can hold a handle in each.
C27_ChatTouchesOwnEntryOnly ==
    [][\A t \in Slots :
          /\ Starts(t) =>
                \A b \in Backends, c \in ConvIds :
                    (b # turns'[t].backend \/ c # turns'[t].req.conversation_id)
                    => Entry(b, c)' = Entry(b, c)
          /\ Settles(t) =>
                \A b \in Backends, c \in ConvIds :
                    (b # turns[t].backend \/ c # turns[t].req.conversation_id)
                    => Entry(b, c)' = Entry(b, c)
          /\ (turns[t].pc = "running" /\ turns'[t].pc = "running"
                /\ turns'[t] # turns[t]) => sessions' = sessions
          /\ (response'.kind = "chat" /\ response'.status = 400) => sessions' = sessions]_vars

\* C27 witness: a turn has just been answered on a conversation id that now
\* holds one handle in the Claude table and a different one in the Codex
\* table.
C27_Witness ==
    /\ AnsweredOk
    /\ Truthy(response.ctx.captured)
    /\ \E c \in ConvIds :
          /\ c = response.ctx.conversation_id
          /\ c \in DOMAIN sessions["claude-code"]
          /\ c \in DOMAIN sessions["codex"]
          /\ sessions["claude-code"][c].sessionId # sessions["codex"][c].sessionId

\* What the adapter of the turn in slot t returns on the given table, for
\* every way its backend call can come out.
Returns(t, table) ==
    IF turns[t].backend = "codex"
    THEN [end |-> [id \in ThreadIds(turns[t]), turn \in CodexTurns |->
                      CodexAdapter_end(table, turns[t], id, turn, now).value],
          catch |-> [err \in Faults |-> CodexAdapter_catch(table, turns[t], err).value]]
    ELSE [end |-> ClaudeAdapter_end(table, turns[t], now).value,
          catch |-> [err \in Faults |-> ClaudeAdapter_catch(table, turns[t], err).value]]

\* C29: a run of the cleanup intervals leaves every turn in flight as it is,
\* with the handle it read at its start and the handle it resumed; what a
\* turn in flight will answer does not depend on whether its entry is still
\* in the table; and a turn that completes without error with a handle
\* leaves its entry present with that handle, also when the entry it had
\* read was reaped while it ran.
C29_SweepLeavesTurnAlone ==
    [][/\ response'.kind = "cleanup" => turns' = turns
       /\ \A t \in Slots :
             turns[t].pc = "running" =>
                LET b == turns[t].backend
                    c == turns[t].req.conversation_id
                    reaped == Without(sessions[b], {c})
                    kept == IF Truthy(Existing(turns[t]))
                            THEN SessionManager_set(sessions[b], c, Existing(turns[t]), 0)
                            ELSE sessions[b]
                IN  /\ Returns(t, reaped) = Returns(t, sessions[b])
                    /\ Returns(t, kept) = Returns(t, sessions[b])
       /\ \A t \in Slots :
             (Settles(t) /\ response'.status = 200 /\ ~response'.body.is_error
                /\ Truthy(response'.ctx.captured)) =>
                /\ response'.body.session_id = response'.ctx.captured
                /\ response'.ctx.conversation_id \in DOMAIN sessions'[response'.ctx.backend]
                /\ sessions'[response'.ctx.backend][response'.ctx.conversation_id].sessionId
                      = response'.ctx.captured]_vars

\* C29 witness: a turn that had read a stored handle has just completed
\* without error with a handle; its entry had been reaped while it ran (it
\* was gone, and no delete had been asked for) and is now present with the
\* turn's handle.
C29_Witness ==
    /\ AnsweredOk
    /\ accepted = 2
    /\ Truthy(response.ctx.existing)
    /\ response.ctx.stored = Undefined
    /\ ~fresh[response.ctx.conversation_id]
    /\ Truthy(response.ctx.captured)
    /\ Stored(response.ctx.backend, response.ctx.conversation_id) = response.ctx.captured

\* C28: while the service runs (no shutdown signal handled), no entry of a
\* deployed backend's table is ever idle for more than the timeout plus one
\* cleanup period, 35 minutes in all; and every entry of either table is
\* eventually removed, unless the service is shut down first.
C28_ReapedWithinOnePeriod ==
    /\ [](~probe.shutdown =>
            \A b \in DOMAIN probe.timers : \A c \in DOMAIN sessions[b] :
                now - sessions[b][c].lastActivity <= 1800000 + 300000)
    /\ \A b \in Backends, c \in ConvIds :
          (c \in DOMAIN sessions[b]) ~> (c \notin DOMAIN sessions[b] \/ probe.shutdown)

\* C28 witness: the timer of the Codex table has just removed an entry that
\* had been idle for exactly 35 minutes.
C28_Witness ==
    /\ response.kind = "sweep"
    /\ response.backend = "codex"
    /\ \E c \in (DOMAIN response.before) \ DOMAIN sessions["codex"] :
          response.at - response.before[c].lastActivity = 1800000 + 300000

\* C30: the handler of a shutdown signal cancels the cleanup timer of every
\* session table of the deployment, the one of the single-backend service
\* and the two of the two-backend service, and touches no entry; once a
\* signal has been handled the timers stay cancelled, no cleanup runs and no
\* entry is removed from any table.
C30_NoSweepAfterShutdown ==
    [][/\ response'.kind = "shutdown" =>
             /\ probe'.shutdown
             /\ \A b \in DOMAIN probe'.timers : probe'.timers[b] = Cancelled
             /\ DOMAIN probe'.timers = DOMAIN probe.timers
             /\ sessions' = sessions
       /\ probe.shutdown =>
             /\ probe'.shutdown
             /\ \A b \in DOMAIN probe'.timers : probe'.timers[b] = Cancelled
             /\ response'.kind # "sweep"
             /\ \A b \in Backends : DOMAIN sessions[b] \subseteq DOMAIN sessions'[b]]_vars

\* C30 witness: the two-backend service has handled a shutdown signal, and
\* each of its tables still holds an entry idle for more than 35 minutes,
\* which a cleanup would have removed.
C30_Witness ==
    /\ probe.shutdown
    /\ DOMAIN probe.timers = Backends
    /\ \A b \in Backends :
          \E c \in DOMAIN sessions[b] :
              now - sessions[b][c].lastActivity > 1800000 + 300000

\* The entry of the answered conversation was, just before the answer, what
\* the call had found at its start: nothing else changed the handle stored
\* for the id on that backend while the call ran.
AnsweredUndisturbed == Answered /\ response.ctx.stored = response.ctx.existing

\* C31 (as stated): when a chat call returns and nothing else touched its
\* conversation id on its backend during the call, the session_id of the
\* answer is the handle stored for the id in that backend's table at that
\* moment, and "" exactly when there is no entry, for successful and for
\* failed turns alike.
C31_AnswerEchoesStoredHandle ==
    AnsweredUndisturbed =>
        response.body.session_id =
            OrEmpty(Stored(response.ctx.backend, response.ctx.conversation_id))

\* C31 (amended): the same holds for every successful turn and for every
\* failed turn that captured no handle; a failed Claude turn that had
\* captured a handle from an init event before the fault answers with the
\* captured handle, while the table keeps what was stored before (the old
\* handle or no entry).
C31_AnswerEchoesStoredUnlessCapturedThenFailed ==
    AnsweredUndisturbed =>
        LET stored == Stored(response.ctx.backend, response.ctx.conversation_id)
        IN  IF response.body.is_error /\ Truthy(response.ctx.captured)
            THEN /\ response.ctx.backend = "claude-code"
                 /\ response.body.session_id = response.ctx.captured
                 /\ stored = response.ctx.existing
            ELSE response.body.session_id = OrEmpty(stored)

\* C31 witness: a Claude turn on a conversation with a stored handle has
\* just failed without capturing a handle, nothing else having changed the
\* entry, and its answer carries the stored handle.
C31_Witness ==
    /\ AnsweredUndisturbed
    /\ response.ctx.backend = "claude-code"
    /\ response.body.is_error
    /\ response.ctx.captured = ""
    /\ Truthy(response.ctx.stored)
    /\ response.body.session_id =
          Stored(response.ctx.backend, response.ctx.conversation_id)

\* A selector that is "codex" or begins with "codex-".
NamesCodex(m) ==
    /\ m # NoModel
    /\ Len(m) >= 5
    /\ m[1] = "c" /\ m[2] = "o" /\ m[3] = "d" /\ m[4] = "e" /\ m[5] = "x"
    /\ (Len(m) = 5 \/ m[6] = "-")

\* C32: as long as no request carries a selector that is "codex" or begins
\* with "codex-", the two-backend service has sent the same answer as the
\* single-backend service to every chat, delete and health request, its
\* Claude table is the single-backend service's table, its calls of the
\* Claude backend in flight are the same, and its Codex table is empty.
C32_TwoBackendRefinesSingle ==
    (\A m \in PairSelectors : ~NamesCodex(m)) =>
        /\ response = probe.response
        /\ sessions["claude-code"] = probe.sessions
        /\ turns = probe.turns
        /\ sessions["codex"] = NoSessions

\* C32 witness: both services have just answered a delete that removed an
\* entry, while a chat request whose selector begins with "codex" but is
\* none of the Codex ones is in flight at the Claude backend of both.
C32_Witness ==
    /\ response.kind = "delete"
    /\ response.body.deleted
    /\ probe.response.body.deleted
    /\ sessions["claude-code"] = probe.sessions
    /\ \E t \in Slots :
          /\ turns[t].pc = "running" /\ turns[t].backend = "claude-code"
          /\ startsWith(turns[t].req.model, codex)
          /\ probe.turns[t] = turns[t]
====
